---- MODULE Spec2Model ----
(***************************************************************************)
(* Model of the Socket.IO chat service of services/websocket-api: the      *)
(* connection listener of src/index.js and the event handlers of           *)
(* events/chatEvents.js, events/userEvents.js and events/roomEvents.js.    *)
(*                                                                         *)
(* Node runs one listener at a time, and no handler awaits anything before *)
(* its last emit, so each handler is one atomic action.  The state of the  *)
(* program is the state Socket.IO keeps for it: the connected sockets and  *)
(* the adapter's rooms (room name -> set of socket ids).  `out` is the     *)
(* list of events the running handler delivered, in emission order, and    *)
(* `last` names that handler and its payload; once the packets are written *)
(* out the server is idle again and takes the next inbound event.          *)
(***************************************************************************)
EXTENDS Integers, Sequences, FiniteSets, TLC

\* ------------------------------------------------------------------ bounds
MaxSessions == 3
MaxClock == 1
MaxEmits == 2

\* Socket ids.  Socket.IO gives every connection a fresh id; the n-th
\* connection of the process is called n.
Sessions == 1..MaxSessions

\* Values Date.now() returns while the process runs: wall-clock
\* milliseconds, the same value for every call within one millisecond.
Clock == 0..MaxClock

\* Values of Math.random().toString(36).substr(2, 9).  Nothing keeps two
\* calls from yielding the same suffix; one suffix stands for that case, and
\* ids of different milliseconds stand for the ids that differ.
RandomSuffixes == {"k3x9"}

\* A payload field that is missing, null or otherwise falsy: `!roomId`.
NoId == <<>>
NoText == ""

\* The room ids clients name in payloads: the ids create_room can hand out.
RoomId(t, x) == <<t, x>>
RoomIds == {RoomId(t, x) : t \in Clock, x \in RandomSuffixes}
RoomIdArgs == RoomIds \cup {NoId}

Contents == {"hi", "yo"}
ContentArgs == Contents \cup {NoText}
RoomNameArgs == {"Lounge", NoText}
MessageIds == {"m1"}
MessageIdArgs == MessageIds \cup {NoText}

\* update_status takes any status string, a missing one included.
StatusArgs == {"away", NoText}

\* create_room's `maxMembers = 100`, update_room's `maxMembers || 100`.
DefaultMaxMembers == 100
MaxMembersArgs == {2, DefaultMaxMembers}

\* The optional fields of an update_room payload; "" and 0 stand for a field
\* the payload leaves out.
UpdateFields ==
  {[name |-> NoText, description |-> NoText, maxMembers |-> 0],
   [name |-> NoText, description |-> "cozy", maxMembers |-> 0],
   [name |-> "Den", description |-> "cozy", maxMembers |-> 5]}

\* ------------------------------------------------------------------ helpers
\* helpers.js: getRoomName = roomId => `room:${roomId}`.  A room name is the
\* pair of its prefix and the rest; a socket's own room is its bare id.
getRoomName(roomId) == <<"room:", roomId>>
SocketRoom(s) == <<"", s>>
RoomNames == {getRoomName(r) : r \in RoomIds} \cup {SocketRoom(s) : s \in Sessions}

VARIABLES
  status,   \* socket id -> "new" (not yet connected), "connected", "closed"
            \* (all "closed" once the process has ended)
  rooms,    \* the adapter: room name -> set of socket ids
  last,     \* the event just handled and its payload ("idle" between events)
  out,      \* the events that handler delivered, in emission order
  created,  \* history: the room ids create_room has handed out so far
  left,     \* history: <<s, roomId>> when s has left roomId and not joined since
  sent,     \* client side: how many send_message events client s has emitted
  inq,      \* socket id -> the send_message events it emitted, not yet handled
  log,      \* history: socket id -> the message_sent events it received, in order
  records   \* history: room id -> the room object create_room built for it

vars == <<status, rooms, last, out, created, left, sent, inq, log, records>>
hist == <<created, left, sent, inq, log, records>>

\* The entry of a room id no create_room has built a room for.
NoRecord == [id |-> NoId]

Connected == {s \in Sessions : status[s] = "connected"}

\* The elements of a set of socket ids, ascending.
RECURSIVE SetToSeq(_)
SetToSeq(S) ==
  IF S = {} THEN <<>>
  ELSE LET m == CHOOSE x \in S : \A y \in S : x <= y
       IN <<m>> \o SetToSeq(S \ {m})

\* One delivery: event `name` with payload `data` reaches socket `to`.
Delivery(to, name, data) == [to |-> to, name |-> name, data |-> data]

Deliveries(targets, name, data) ==
  LET q == SetToSeq(targets)
  IN [i \in 1..Len(q) |-> Delivery(q[i], name, data)]

\* socket.emit(name, data)
SocketEmit(s, name, data) == <<Delivery(s, name, data)>>

\* Mutant of IoToEmit: io.emit, the room forgotten.
IoToEmit_AllSockets(rms, roomName, name, data) ==
  Deliveries(UNION {rms[n] : n \in RoomNames}, name, data)

\* io.to(roomName).emit(name, data): every socket in the room.
IoToEmit(rms, roomName, name, data) == Deliveries(rms[roomName], name, data)

\* Mutant of SocketToEmit: io.to(roomName), the sender not left out.
SocketToEmit_IncludesSender(rms, s, roomName, name, data) ==
  Deliveries(rms[roomName], name, data)

\* socket.to(roomName).emit(name, data): every socket in the room but s.
SocketToEmit(rms, s, roomName, name, data) ==
  Deliveries(rms[roomName] \ {s}, name, data)

\* Mutant of BroadcastEmit: socket.emit, the sender alone.
BroadcastEmit_ToSelf(conn, s, name, data) == Deliveries(conn \cap {s}, name, data)

\* socket.broadcast.emit(name, data): every connected socket but s.
BroadcastEmit(conn, s, name, data) == Deliveries(conn \ {s}, name, data)

\* io.emit(name, data): every connected socket.
IoEmit(conn, name, data) == Deliveries(conn, name, data)

\* socket.join(roomName) / socket.leave(roomName)
SocketJoin(rms, s, roomName) == [rms EXCEPT ![roomName] = @ \cup {s}]

\* Mutant of SocketLeave: the socket stays in the room.
SocketLeave_Noop(rms, s, roomName) == rms

SocketLeave(rms, s, roomName) == [rms EXCEPT ![roomName] = @ \ {s}]

\* Mutant of LeaveAll: the socket is taken out of one room per turn.
LeaveAll_OneRoom(rms, s) ==
  LET n == CHOOSE x \in RoomNames : s \in rms[x] IN SocketLeave(rms, s, n)

\* Socket.IO's leaveAll() on close: the socket leaves every room.
LeaveAll(rms, s) == [n \in RoomNames |-> rms[n] \ {s}]

\* socket.rooms: the names of the rooms socket s is in.
SocketRooms(rms, s) == {n \in RoomNames : s \in rms[n]}

\* Mutant of StartsWithRoom: every room of the socket counts as a chat room.
StartsWithRoom_Any(roomName) == TRUE

\* roomName.startsWith('room:')
StartsWithRoom(roomName) == roomName[1] = "room:"

\* An inbound event as the handler sees it: its name, the socket it came
\* from and the fields the handler destructures from the payload.
Event(op, s, data) == [op |-> op, sid |-> s, data |-> data]
NoData == [none |-> TRUE]
Idle == Event("idle", 0, NoData)

ErrorRoomId == [message |-> "Room ID is required"]

\* The `user` object of a payload (helpers.js getUserForSocket): its id.
User(s) == [id |-> s]

\* ------------------------------------------------------------------ state
Init ==
  /\ status = [s \in Sessions |-> "new"]
  /\ rooms = [n \in RoomNames |-> {}]
  /\ last = Idle
  /\ out = <<>>
  /\ created = {}
  /\ left = {}
  /\ sent = [s \in Sessions |-> 0]
  /\ inq = [s \in Sessions |-> <<>>]
  /\ log = [s \in Sessions |-> <<>>]
  /\ records = [r \in RoomIds |-> NoRecord]

\* The packets of the finished handler are written to the transport; the
\* event loop is free to dispatch the next inbound event.  (After a listener
\* that threw, the turn does not end this way: see Uncaught.)
Flush ==
  /\ last.op \notin {"idle", "no_payload"}
  /\ last' = Idle
  /\ out' = <<>>
  /\ UNCHANGED <<status, rooms, hist>>

\* The room id a finished create_room handed out, NoId if it handed out none.
NewRoomId ==
  IF last.op = "create_room" /\ last.data.name # NoText
  THEN out[Len(out)].data.room.id
  ELSE NoId

\* The room a finished join or create put socket last.sid into, and the room
\* a finished leave_room took it out of (NoId if none).
JoinedRoomId ==
  IF last.op \in {"join_room", "join_room_request"} THEN last.data.roomId
  ELSE NewRoomId
LeftRoomId == IF last.op = "leave_room" THEN last.data.roomId ELSE NoId

\* Flush, with the history of the finished handler written down.
FlushRecord ==
  /\ last.op \notin {"idle", "no_payload"}
  /\ last' = Idle
  /\ out' = <<>>
  /\ created' = created \cup ({NewRoomId} \ {NoId})
  /\ left' = IF last.op = "disconnect"
             THEN {p \in left : p[1] # last.sid}
             ELSE (left \ {<<last.sid, JoinedRoomId>>})
                  \cup ({<<last.sid, LeftRoomId>>} \ {<<last.sid, NoId>>})
  /\ UNCHANGED <<status, rooms, sent, inq, log, records>>

\* A handler of socket s runs: s is connected and no other handler is running.
Ready(s) == last.op = "idle" /\ status[s] = "connected"

\* index.js io.on('connection'): the socket is registered and joins the room
\* named by its own id; the listeners are attached.  Nothing is emitted: a
\* server-side socket never fires the 'connect' event userEvents.js listens to.
Connection(s) ==
  /\ last.op = "idle"
  /\ status[s] = "new"
  /\ \A k \in Sessions : k < s => status[k] # "new"
  /\ status' = [status EXCEPT ![s] = "connected"]
  /\ rooms' = SocketJoin(rooms, s, SocketRoom(s))
  /\ last' = Event("connection", s, NoData)
  /\ out' = <<>>
  /\ UNCHANGED hist

\* Mutant of Disconnect: the closed socket keeps its rooms.
Disconnect_KeepsRooms(s) ==
  /\ Ready(s)
  /\ status' = [status EXCEPT ![s] = "closed"]
  /\ rooms' = rooms
  /\ last' = Event("disconnect", s, [rooms |-> SocketRooms(rooms, s)])
  /\ out' = BroadcastEmit(Connected \ {s}, s, "user_offline", [userId |-> s])
  /\ UNCHANGED hist

\* Mutant of Disconnect: user_offline goes out with io.emit while the closing
\* socket is still on the server's list.
Disconnect_TellsAll(s) ==
  /\ Ready(s)
  /\ status' = [status EXCEPT ![s] = "closed"]
  /\ rooms' = LeaveAll(rooms, s)
  /\ last' = Event("disconnect", s, [rooms |-> SocketRooms(rooms, s)])
  /\ out' = IoEmit(Connected, "user_offline", [userId |-> s])
  /\ UNCHANGED hist

\* userEvents.js 'disconnect'.  Socket.IO has already taken the socket out of
\* every room and out of the server's socket list when the listener runs;
\* the event records the rooms it was taken out of.
Disconnect(s) ==
  /\ Ready(s)
  /\ status' = [status EXCEPT ![s] = "closed"]
  /\ rooms' = LeaveAll(rooms, s)
  /\ last' = Event("disconnect", s, [rooms |-> SocketRooms(rooms, s)])
  /\ out' = BroadcastEmit(Connected \ {s}, s, "user_offline", [userId |-> s])
  /\ UNCHANGED hist

\* Mutant of OnClose: the 'disconnect' listeners run for every close signal.
OnClose_RunsListeners(s) ==
  /\ last.op = "idle"
  /\ status[s] = "closed"
  /\ last' = Event("close", s, NoData)
  /\ out' = BroadcastEmit(Connected, s, "user_offline", [userId |-> s])
  /\ UNCHANGED <<status, rooms, hist>>

\* The transport signals close for a socket whose close has been handled
\* (a transport error after the client's disconnect packet, say).  Socket.IO
\* fires 'disconnect' only for a socket that is still connected, so the
\* listeners of userEvents.js and index.js do not run a second time.
OnClose(s) ==
  /\ last.op = "idle"
  /\ status[s] = "closed"
  /\ last' = Event("close", s, NoData)
  /\ out' = <<>>
  /\ UNCHANGED <<status, rooms, hist>>

\* Whether socket s is in the chat room of roomId (no room for a missing id).
InRoom(rms, s, roomId) == roomId # NoId /\ s \in rms[getRoomName(roomId)]

\* Mutant of JoinRoom: a socket already in the room is told room_joined and
\* the others are not notified again.
JoinRoom_SilentRejoin(s, roomId) ==
  /\ Ready(s)
  /\ last' = Event("join_room", s,
                   [roomId |-> roomId, wasIn |-> InRoom(rooms, s, roomId)])
  /\ IF roomId = NoId
     THEN /\ out' = SocketEmit(s, "error", ErrorRoomId)
          /\ UNCHANGED rooms
     ELSE /\ rooms' = SocketJoin(rooms, s, getRoomName(roomId))
          /\ out' = (IF InRoom(rooms, s, roomId) THEN <<>>
                     ELSE SocketToEmit(rooms', s, getRoomName(roomId),
                                       "user_joined",
                                       [userId |-> s, user |-> User(s)]))
                    \o SocketEmit(s, "room_joined", [roomId |-> roomId])
  /\ UNCHANGED <<status, hist>>

\* chatEvents.js join_room.  The event records whether the socket was in the
\* room when it arrived (`wasIn`, not a payload field).
JoinRoom(s, roomId) ==
  /\ Ready(s)
  /\ last' = Event("join_room", s,
                   [roomId |-> roomId, wasIn |-> InRoom(rooms, s, roomId)])
  /\ IF roomId = NoId
     THEN /\ out' = SocketEmit(s, "error", ErrorRoomId)
          /\ UNCHANGED rooms
     ELSE /\ rooms' = SocketJoin(rooms, s, getRoomName(roomId))
          /\ out' = SocketToEmit(rooms', s, getRoomName(roomId), "user_joined",
                                 [userId |-> s, user |-> User(s)])
                    \o SocketEmit(s, "room_joined", [roomId |-> roomId])
  /\ UNCHANGED <<status, hist>>

\* Mutant of LeaveRoom: a socket that is not in the room is refused.
LeaveRoom_MembersOnly(s, roomId) ==
  /\ Ready(s)
  /\ last' = Event("leave_room", s,
                   [roomId |-> roomId, wasIn |-> InRoom(rooms, s, roomId)])
  /\ IF roomId = NoId
     THEN /\ out' = SocketEmit(s, "error", ErrorRoomId)
          /\ UNCHANGED rooms
     ELSE IF ~InRoom(rooms, s, roomId)
     THEN /\ out' = SocketEmit(s, "error", [code |-> "NOT_MEMBER"])
          /\ UNCHANGED rooms
     ELSE /\ rooms' = SocketLeave(rooms, s, getRoomName(roomId))
          /\ out' = SocketToEmit(rooms', s, getRoomName(roomId), "user_left",
                                 [userId |-> s, user |-> User(s)])
                    \o SocketEmit(s, "room_left", [roomId |-> roomId])
  /\ UNCHANGED <<status, hist>>

\* Mutant of LeaveRoom: the room is told with io.to(roomName) before the
\* socket leaves it, so the leaving socket is told as well.
LeaveRoom_TellsRoomFirst(s, roomId) ==
  /\ Ready(s)
  /\ last' = Event("leave_room", s,
                   [roomId |-> roomId, wasIn |-> InRoom(rooms, s, roomId)])
  /\ IF roomId = NoId
     THEN /\ out' = SocketEmit(s, "error", ErrorRoomId)
          /\ UNCHANGED rooms
     ELSE /\ rooms' = SocketLeave(rooms, s, getRoomName(roomId))
          /\ out' = IoToEmit(rooms, getRoomName(roomId), "user_left",
                             [userId |-> s, user |-> User(s)])
                    \o SocketEmit(s, "room_left", [roomId |-> roomId])
  /\ UNCHANGED <<status, hist>>

\* chatEvents.js leave_room.  The event records whether the socket was in
\* the room when it arrived (`wasIn`, not a payload field).
LeaveRoom(s, roomId) ==
  /\ Ready(s)
  /\ last' = Event("leave_room", s,
                   [roomId |-> roomId, wasIn |-> InRoom(rooms, s, roomId)])
  /\ IF roomId = NoId
     THEN /\ out' = SocketEmit(s, "error", ErrorRoomId)
          /\ UNCHANGED rooms
     ELSE /\ rooms' = SocketLeave(rooms, s, getRoomName(roomId))
          /\ out' = SocketToEmit(rooms', s, getRoomName(roomId), "user_left",
                                 [userId |-> s, user |-> User(s)])
                    \o SocketEmit(s, "room_left", [roomId |-> roomId])
  /\ UNCHANGED <<status, hist>>

\* The message object send_message builds (its id and timestamps left out).
Message(s, roomId, content) ==
  [content |-> content, type |-> "text", senderId |-> s, roomId |-> roomId,
   sender |-> User(s)]

\* Mutant of SendMessage: new_message is emitted before message_sent.
SendMessage_NewMessageFirst(s, roomId, content) ==
  /\ Ready(s)
  /\ last' = Event("send_message", s, [roomId |-> roomId, content |-> content])
  /\ IF roomId = NoId \/ content = NoText
     THEN out' = SocketEmit(s, "error",
                            [message |-> "Room ID and content are required"])
     ELSE out' = IoToEmit(rooms, getRoomName(roomId), "new_message",
                          Message(s, roomId, content))
                 \o IoToEmit(rooms, getRoomName(roomId), "message_sent",
                             [message |-> Message(s, roomId, content)])
  /\ UNCHANGED <<status, rooms, hist>>

\* Mutant of SendMessage: `if (!roomId)`, the content not checked.
SendMessage_RoomIdOnly(s, roomId, content) ==
  /\ Ready(s)
  /\ last' = Event("send_message", s, [roomId |-> roomId, content |-> content])
  /\ IF roomId = NoId
     THEN out' = SocketEmit(s, "error",
                            [message |-> "Room ID and content are required"])
     ELSE out' = IoToEmit(rooms, getRoomName(roomId), "message_sent",
                          [message |-> Message(s, roomId, content)])
                 \o IoToEmit(rooms, getRoomName(roomId), "new_message",
                             Message(s, roomId, content))
  /\ UNCHANGED <<status, rooms, hist>>

\* chatEvents.js send_message
SendMessage(s, roomId, content) ==
  /\ Ready(s)
  /\ last' = Event("send_message", s, [roomId |-> roomId, content |-> content])
  /\ IF roomId = NoId \/ content = NoText
     THEN out' = SocketEmit(s, "error",
                            [message |-> "Room ID and content are required"])
     ELSE out' = IoToEmit(rooms, getRoomName(roomId), "message_sent",
                          [message |-> Message(s, roomId, content)])
                 \o IoToEmit(rooms, getRoomName(roomId), "new_message",
                             Message(s, roomId, content))
  /\ UNCHANGED <<status, rooms, hist>>

\* chatEvents.js typing_start
TypingStart(s, roomId) ==
  /\ Ready(s)
  /\ last' = Event("typing_start", s, [roomId |-> roomId])
  /\ IF roomId # NoId
     THEN out' = SocketToEmit(rooms, s, getRoomName(roomId), "user_typing",
                              [userId |-> s, user |-> User(s)])
     ELSE out' = <<>>
  /\ UNCHANGED <<status, rooms, hist>>

\* chatEvents.js typing_stop
TypingStop(s, roomId) ==
  /\ Ready(s)
  /\ last' = Event("typing_stop", s, [roomId |-> roomId])
  /\ IF roomId # NoId
     THEN out' = SocketToEmit(rooms, s, getRoomName(roomId),
                              "user_stopped_typing", [userId |-> s])
     ELSE out' = <<>>
  /\ UNCHANGED <<status, rooms, hist>>

\* socket.rooms.forEach(roomName => { if (roomName.startsWith('room:'))
\*   io.to(roomName).emit(name, data) }): one broadcast per chat room of s.
RECURSIVE ForEachRoom(_, _, _, _)
ForEachRoom(rms, names, name, data) ==
  IF names = {} THEN <<>>
  ELSE LET n == CHOOSE x \in names : TRUE
       IN (IF StartsWithRoom(n) THEN IoToEmit(rms, n, name, data) ELSE <<>>)
          \o ForEachRoom(rms, names \ {n}, name, data)

\* Mutant of EditMessage: one broadcast to the chat rooms of s together
\* (io.to(r1).to(r2).emit), each socket addressed once.
EditMessage_OneBroadcast(s, messageId, content) ==
  /\ Ready(s)
  /\ last' = Event("edit_message", s, [messageId |-> messageId, content |-> content])
  /\ IF messageId = NoText \/ content = NoText
     THEN out' = SocketEmit(s, "error",
                            [message |-> "Message ID and content are required"])
     ELSE out' = Deliveries(UNION {rooms[n] : n \in {x \in SocketRooms(rooms, s) :
                                                      StartsWithRoom(x)}},
                            "message_edited",
                            [id |-> messageId, content |-> content,
                             isEdited |-> TRUE, sender |-> User(s)])
  /\ UNCHANGED <<status, rooms, hist>>

\* chatEvents.js edit_message
EditMessage(s, messageId, content) ==
  /\ Ready(s)
  /\ last' = Event("edit_message", s, [messageId |-> messageId, content |-> content])
  /\ IF messageId = NoText \/ content = NoText
     THEN out' = SocketEmit(s, "error",
                            [message |-> "Message ID and content are required"])
     ELSE out' = ForEachRoom(rooms, SocketRooms(rooms, s), "message_edited",
                             [id |-> messageId, content |-> content,
                              isEdited |-> TRUE, sender |-> User(s)])
  /\ UNCHANGED <<status, rooms, hist>>

\* chatEvents.js delete_message
DeleteMessage(s, messageId) ==
  /\ Ready(s)
  /\ last' = Event("delete_message", s, [messageId |-> messageId])
  /\ IF messageId = NoText
     THEN out' = SocketEmit(s, "error", [message |-> "Message ID is required"])
     ELSE out' = ForEachRoom(rooms, SocketRooms(rooms, s), "message_deleted",
                             [messageId |-> messageId, deletedBy |-> s])
  /\ UNCHANGED <<status, rooms, hist>>

\* Mutant of CreateRoom: room_created goes out with socket.broadcast.emit.
CreateRoom_BroadcastOthers(s, name, maxMembers, t, x) ==
  /\ Ready(s)
  /\ last' = Event("create_room", s, [name |-> name, maxMembers |-> maxMembers])
  /\ IF name = NoText
     THEN /\ out' = SocketEmit(s, "error", [message |-> "Room name is required"])
          /\ UNCHANGED rooms
     ELSE /\ rooms' = SocketJoin(rooms, s, getRoomName(RoomId(t, x)))
          /\ out' = BroadcastEmit(Connected, s, "room_created",
                           [room |-> [id |-> RoomId(t, x), name |-> name,
                                      type |-> "public", createdBy |-> User(s),
                                      memberCount |-> 1]])
                    \o SocketEmit(s, "room_created_success",
                           [room |-> [id |-> RoomId(t, x), name |-> name,
                                      type |-> "public", createdById |-> s,
                                      maxMembers |-> maxMembers]])
  /\ UNCHANGED <<status, hist>>

\* roomEvents.js create_room.  The new id is `room_${Date.now()}_${suffix}`:
\* t is what Date.now() returns (wall-clock time) and x the suffix cut from
\* Math.random(); maxMembers is the payload's value or the default.
CreateRoom(s, name, maxMembers, t, x) ==
  /\ Ready(s)
  /\ last' = Event("create_room", s, [name |-> name, maxMembers |-> maxMembers])
  /\ IF name = NoText
     THEN /\ out' = SocketEmit(s, "error", [message |-> "Room name is required"])
          /\ UNCHANGED rooms
     ELSE /\ rooms' = SocketJoin(rooms, s, getRoomName(RoomId(t, x)))
          /\ out' = IoEmit(Connected, "room_created",
                           [room |-> [id |-> RoomId(t, x), name |-> name,
                                      type |-> "public", createdBy |-> User(s),
                                      memberCount |-> 1]])
                    \o SocketEmit(s, "room_created_success",
                           [room |-> [id |-> RoomId(t, x), name |-> name,
                                      type |-> "public", createdById |-> s,
                                      maxMembers |-> maxMembers]])
  /\ UNCHANGED <<status, hist>>

\* roomEvents.js join_room_request
JoinRoomRequest(s, roomId) ==
  /\ Ready(s)
  /\ last' = Event("join_room_request", s, [roomId |-> roomId])
  /\ IF roomId = NoId
     THEN /\ out' = SocketEmit(s, "error", ErrorRoomId)
          /\ UNCHANGED rooms
     ELSE /\ rooms' = SocketJoin(rooms, s, getRoomName(roomId))
          /\ out' = SocketToEmit(rooms', s, getRoomName(roomId), "user_joined_room",
                                 [userId |-> s, user |-> User(s), roomId |-> roomId])
                    \o SocketEmit(s, "room_joined_success", [roomId |-> roomId])
  /\ UNCHANGED <<status, hist>>

\* roomEvents.js leave_room_request
LeaveRoomRequest(s, roomId) ==
  /\ Ready(s)
  /\ last' = Event("leave_room_request", s, [roomId |-> roomId])
  /\ IF roomId = NoId
     THEN /\ out' = SocketEmit(s, "error", ErrorRoomId)
          /\ UNCHANGED rooms
     ELSE /\ rooms' = SocketLeave(rooms, s, getRoomName(roomId))
          /\ out' = SocketToEmit(rooms', s, getRoomName(roomId), "user_left_room",
                                 [userId |-> s, user |-> User(s), roomId |-> roomId])
                    \o SocketEmit(s, "room_left_success", [roomId |-> roomId])
  /\ UNCHANGED <<status, hist>>

\* roomEvents.js get_room_members
GetRoomMembers(s, roomId) ==
  /\ Ready(s)
  /\ last' = Event("get_room_members", s, [roomId |-> roomId])
  /\ IF roomId = NoId
     THEN out' = SocketEmit(s, "error", ErrorRoomId)
     ELSE out' = SocketEmit(s, "room_members",
                            [roomId |-> roomId, members |-> {}, count |-> 0])
  /\ UNCHANGED <<status, rooms, hist>>

\* roomEvents.js get_room_info
GetRoomInfo(s, roomId) ==
  /\ Ready(s)
  /\ last' = Event("get_room_info", s, [roomId |-> roomId])
  /\ IF roomId = NoId
     THEN out' = SocketEmit(s, "error", ErrorRoomId)
     ELSE out' = SocketEmit(s, "room_info",
                            [room |-> [id |-> roomId, type |-> "public",
                                       maxMembers |-> DefaultMaxMembers,
                                       memberCount |-> 1]])
  /\ UNCHANGED <<status, rooms, hist>>

\* `name || ...`, `description || ...`, `maxMembers || 100` of update_room.
OrElse(value, falsy, default) == IF value = falsy THEN default ELSE value

\* roomEvents.js update_room
UpdateRoom(s, roomId, f) ==
  /\ Ready(s)
  /\ last' = Event("update_room", s,
                   [roomId |-> roomId, name |-> f.name,
                    description |-> f.description, maxMembers |-> f.maxMembers])
  /\ IF roomId = NoId
     THEN out' = SocketEmit(s, "error", ErrorRoomId)
     ELSE LET updatedRoom ==
                [id |-> roomId,
                 name |-> OrElse(f.name, NoText, "Room <roomId>"),
                 description |-> OrElse(f.description, NoText, "Demo room"),
                 maxMembers |-> OrElse(f.maxMembers, 0, DefaultMaxMembers),
                 updatedBy |-> User(s)]
          IN out' = IoToEmit(rooms, getRoomName(roomId), "room_updated",
                             [room |-> updatedRoom])
                    \o SocketEmit(s, "room_updated_success", [room |-> updatedRoom])
  /\ UNCHANGED <<status, rooms, hist>>

\* Mutant of UpdateStatus: the update goes out with io.emit.
UpdateStatus_IoEmit(s, st) ==
  /\ Ready(s)
  /\ last' = Event("update_status", s, [status |-> st])
  /\ out' = IoEmit(Connected, "user_status_update", [userId |-> s, status |-> st])
            \o SocketEmit(s, "status_updated", [status |-> st])
  /\ UNCHANGED <<status, rooms, hist>>

\* userEvents.js update_status
UpdateStatus(s, st) ==
  /\ Ready(s)
  /\ last' = Event("update_status", s, [status |-> st])
  /\ out' = BroadcastEmit(Connected, s, "user_status_update",
                          [userId |-> s, status |-> st])
            \o SocketEmit(s, "status_updated", [status |-> st])
  /\ UNCHANGED <<status, rooms, hist>>

\* The users get_online_users builds from a list of socket ids.
OnlineUsers(ids) == [i \in 1..Len(ids) |-> User(ids[i])]

\* Mutant of GetOnlineUsers: every socket the server has seen is listed.
GetOnlineUsers_EverSeen(s) ==
  /\ Ready(s)
  /\ last' = Event("get_online_users", s, NoData)
  /\ LET connectedSockets == SetToSeq({k \in Sessions : status[k] # "new"})
     IN out' = SocketEmit(s, "online_users",
                          [users |-> OnlineUsers(connectedSockets),
                           count |-> Len(OnlineUsers(connectedSockets))])
  /\ UNCHANGED <<status, rooms, hist>>

\* userEvents.js get_online_users: io.sockets.sockets holds the connected
\* sockets, in the order they connected.
GetOnlineUsers(s) ==
  /\ Ready(s)
  /\ last' = Event("get_online_users", s, NoData)
  /\ LET connectedSockets == SetToSeq(Connected)
     IN out' = SocketEmit(s, "online_users",
                          [users |-> OnlineUsers(connectedSockets),
                           count |-> Len(OnlineUsers(connectedSockets))])
  /\ UNCHANGED <<status, rooms, hist>>

\* The client events that are emitted with no payload object, so that the
\* listener's `data` is undefined.
NoPayloadEvents == {"join_room", "send_message", "typing_start"}

\* A client emits event e with no payload: `const { roomId } = data` throws
\* a TypeError.  The join_room and send_message listeners of chatEvents.js
\* catch it and call handleSocketError, which sends the error event; the
\* typing_start listener has no try and sends nothing.
NoPayload(s, e) ==
  /\ Ready(s)
  /\ last' = Event("no_payload", s, [event |-> e])
  /\ out' = IF e \in {"join_room", "send_message"}
            THEN SocketEmit(s, "error",
                            [message |-> "TypeError", code |-> "UNKNOWN_ERROR"])
            ELSE <<>>
  /\ UNCHANGED <<status, rooms, hist>>

\* The TypeError leaves a listener uncaught: typing_start's own, or, for
\* join_room and send_message, the logging listener of index.js that reads
\* data.roomId after the chatEvents listener has run.  index.js installs no
\* 'uncaughtException' handler, so Node ends the process: every socket is
\* gone with its rooms and no connection is accepted any more.
Uncaught ==
  /\ last.op = "no_payload"
  /\ status' = [s \in Sessions |-> "closed"]
  /\ rooms' = [n \in RoomNames |-> {}]
  /\ last' = Event("exit", last.sid, last.data)
  /\ out' = <<>>
  /\ UNCHANGED hist

Handler ==
  \/ \E s \in Sessions : Connection(s)
  \/ \E s \in Sessions : Disconnect(s)
  \/ \E s \in Sessions : OnClose(s)
  \/ \E s \in Sessions, r \in RoomIdArgs : JoinRoom(s, r)
  \/ \E s \in Sessions, r \in RoomIdArgs : LeaveRoom(s, r)
  \/ \E s \in Sessions, r \in RoomIdArgs, c \in ContentArgs : SendMessage(s, r, c)
  \/ \E s \in Sessions, m \in MessageIdArgs, c \in ContentArgs : EditMessage(s, m, c)
  \/ \E s \in Sessions, m \in MessageIdArgs : DeleteMessage(s, m)
  \/ \E s \in Sessions, r \in RoomIdArgs : TypingStart(s, r)
  \/ \E s \in Sessions, r \in RoomIdArgs : TypingStop(s, r)
  \/ \E s \in Sessions, n \in RoomNameArgs, m \in MaxMembersArgs,
        t \in Clock, x \in RandomSuffixes : CreateRoom(s, n, m, t, x)
  \/ \E s \in Sessions, r \in RoomIdArgs : JoinRoomRequest(s, r)
  \/ \E s \in Sessions, r \in RoomIdArgs : LeaveRoomRequest(s, r)
  \/ \E s \in Sessions, r \in RoomIdArgs : GetRoomMembers(s, r)
  \/ \E s \in Sessions, r \in RoomIdArgs : GetRoomInfo(s, r)
  \/ \E s \in Sessions, r \in RoomIdArgs, f \in UpdateFields : UpdateRoom(s, r, f)
  \/ \E s \in Sessions, st \in StatusArgs : UpdateStatus(s, st)
  \/ \E s \in Sessions : GetOnlineUsers(s)
  \/ \E s \in Sessions, e \in NoPayloadEvents : NoPayload(s, e)
  \/ Uncaught

Next == Flush \/ Handler
Spec == Init /\ [][Next]_vars

\* The same program with the history variables `created` and `left` kept.
NextHistory == FlushRecord \/ Handler
SpecHistory == Init /\ [][NextHistory]_vars

\* ------------------------------------------------------- inbound ordering
\* The content of the k-th send_message a client emits; it names the message.
MessageOf(k) == IF k = 1 THEN "hi" ELSE "yo"

RECURSIVE Sum(_, _)
Sum(f, S) ==
  IF S = {} THEN 0
  ELSE LET x == CHOOSE y \in S : TRUE IN f[x] + Sum(f, S \ {x})

\* The client of socket s emits send_message {roomId, content}
\* (test-websocket.js testSendMessage); the packet waits in the connection's
\* inbound queue behind the packets the client emitted before it.  A packet
\* that arrives while a handler runs waits for the event loop all the same,
\* so arrivals are taken between handlers.
ClientEmit(s, roomId) ==
  /\ last.op = "idle"
  /\ status[s] = "connected"
  /\ Sum(sent, Sessions) < MaxEmits
  /\ sent' = [sent EXCEPT ![s] = @ + 1]
  /\ inq' = [inq EXCEPT ![s] =
               Append(@, [roomId |-> roomId, content |-> MessageOf(sent[s] + 1)])]
  /\ UNCHANGED <<status, rooms, last, out, created, left, log, records>>

\* Mutant of Dispatch: the newest packet of the connection is handled first.
Dispatch_Newest(s) ==
  /\ inq[s] # <<>>
  /\ SendMessage(s, inq[s][Len(inq[s])].roomId, inq[s][Len(inq[s])].content)

\* socket.on('send_message', ...): the listener is called with the packets
\* of the connection in the order they arrived, the oldest first.
Dispatch(s) ==
  /\ inq[s] # <<>>
  /\ SendMessage(s, Head(inq[s]).roomId, Head(inq[s]).content)

\* q without the first occurrence of e.
Remove(q, e) ==
  LET i == CHOOSE k \in DOMAIN q : q[k] = e /\ \A j \in 1..(k - 1) : q[j] # e
  IN SubSeq(q, 1, i - 1) \o SubSeq(q, i + 1, Len(q))

\* The message_sent events of the finished handler that reached socket x, as
\* <<sender, roomId, content>>, in emission order.
Received(x) ==
  LET q == SelectSeq(out, LAMBDA d : d.to = x /\ d.name = "message_sent")
  IN [i \in 1..Len(q) |-> <<q[i].data.message.senderId,
                            q[i].data.message.roomId,
                            q[i].data.message.content>>]

\* Flush, with the handled packet taken off its connection's queue and the
\* message_sent events appended to the receivers' logs: the transport of
\* each receiver carries its packets in the order they were written.
FlushDeliver ==
  /\ last.op # "idle"
  /\ last' = Idle
  /\ out' = <<>>
  /\ log' = [x \in Sessions |-> log[x] \o Received(x)]
  /\ inq' = IF last.op = "send_message"
            THEN [inq EXCEPT ![last.sid] = Remove(@, last.data)]
            ELSE inq
  /\ UNCHANGED <<status, rooms, created, left, sent, records>>

\* The program with clients that queue send_message events, while sockets
\* connect, join and leave rooms in between.
NextOrder ==
  \/ FlushDeliver
  \/ \E s \in Sessions : Connection(s)
  \/ \E s \in Sessions, r \in RoomIds : JoinRoom(s, r)
  \/ \E s \in Sessions, r \in RoomIds : LeaveRoom(s, r)
  \/ \E s \in Sessions, r \in RoomIds : ClientEmit(s, r)
  \/ \E s \in Sessions : Dispatch(s)
SpecOrder == Init /\ [][NextOrder]_vars

\* ----------------------------------------------------------- room records
\* Flush, with the room object of a finished create_room written down: the
\* `room` that room_created_success carried (its id, name and maxMembers).
FlushRooms ==
  /\ last.op # "idle"
  /\ last' = Idle
  /\ out' = <<>>
  /\ records' = IF NewRoomId # NoId
                THEN [records EXCEPT ![NewRoomId] = out[Len(out)].data.room]
                ELSE records
  /\ UNCHANGED <<status, rooms, created, left, sent, inq, log>>

\* The program with the rooms' records kept: sockets connect, create, join,
\* leave and update rooms.
NextRooms ==
  \/ FlushRooms
  \/ \E s \in Sessions : Connection(s)
  \/ \E s \in Sessions, n \in RoomNameArgs, m \in MaxMembersArgs,
        t \in Clock, x \in RandomSuffixes : CreateRoom(s, n, m, t, x)
  \/ \E s \in Sessions, r \in RoomIdArgs : JoinRoom(s, r)
  \/ \E s \in Sessions, r \in RoomIdArgs : LeaveRoom(s, r)
  \/ \E s \in Sessions, r \in RoomIdArgs, f \in UpdateFields : UpdateRoom(s, r, f)
SpecRooms == Init /\ [][NextRooms]_vars

\* ------------------------------------------------------------------ claims
\* The events the finished handler delivered to socket s, in order.
Inbox(s) == SelectSeq(out, LAMBDA d : d.to = s)

Members(roomId) == rooms[getRoomName(roomId)]

\* The finished handler is `op` and its payload named a room.
Handled(op) == last.op = op
HandledInRoom(op) == last.op = op /\ last.data.roomId # NoId

SendAccepted ==
  /\ last.op = "send_message"
  /\ last.data.roomId # NoId
  /\ last.data.content # NoText

\* C1: a send_message(R, x) with content delivers message_sent with
\* message.content = x and message.roomId = R to every socket that is in
\* room R (the sender A and any other member B), and delivers nothing at all
\* to a socket that is not in R.
C1_SendReachesRoomOnly ==
  SendAccepted =>
    \A s \in Sessions :
      IF s \in Members(last.data.roomId)
      THEN \E i \in DOMAIN out :
             /\ out[i].to = s
             /\ out[i].name = "message_sent"
             /\ out[i].data.message.content = last.data.content
             /\ out[i].data.message.roomId = last.data.roomId
      ELSE Inbox(s) = <<>>

C1_Witness ==
  /\ SendAccepted
  /\ last.sid \in Members(last.data.roomId)
  /\ \E b \in Members(last.data.roomId) : b # last.sid
  /\ \E c \in Connected : c \notin Members(last.data.roomId)
  /\ out # <<>>

\* C2: once leave_room(A, R) has been handled, and until A joins R again (or
\* creates it), no send_message to R delivers anything to A, whoever sends it
\* and whatever the other connections did in between.
C2_NoDeliveryAfterLeave ==
  Handled("send_message") =>
    \A i \in DOMAIN out :
      out[i].name \in {"message_sent", "new_message"} =>
        <<out[i].to, last.data.roomId>> \notin left

C2_Witness ==
  /\ SendAccepted
  /\ last.sid \in Members(last.data.roomId)
  /\ out # <<>>
  /\ \E a \in Connected :
       a # last.sid /\ <<a, last.data.roomId>> \in left

\* C3: every socket in any room is a connected socket; a socket whose
\* disconnect has been handled is in no room.
C3_MembersAreConnected ==
  /\ \A n \in RoomNames : rooms[n] \subseteq Connected
  /\ \A s \in Sessions :
       status[s] = "closed" => \A n \in RoomNames : s \notin rooms[n]

C3_Witness ==
  /\ Handled("disconnect")
  /\ \E n \in last.data.rooms : StartsWithRoom(n) /\ rooms[n] # {}

\* C4: when a socket that was in rooms R1 and R2 disconnects, every socket
\* still in R1 and every socket still in R2 is delivered the event that
\* announces the departure, user_offline, naming the disconnected socket.
C4_DisconnectAnnounced ==
  Handled("disconnect") =>
    \A n \in last.data.rooms :
      StartsWithRoom(n) =>
        \A m \in rooms[n] :
          \E i \in DOMAIN out :
            /\ out[i].to = m
            /\ out[i].name = "user_offline"
            /\ out[i].data.userId = last.sid

C4_Witness ==
  /\ Handled("disconnect")
  /\ \E n1, n2 \in last.data.rooms :
       /\ n1 # n2
       /\ StartsWithRoom(n1) /\ StartsWithRoom(n2)
       /\ rooms[n1] # {} /\ rooms[n2] # {}

\* C5: typing_start(A, R) and then typing_stop(A, R) deliver to every other
\* member of R exactly two user_typing events, isTyping true and then false,
\* and nothing to A: each of the two handlers delivers to every other member
\* exactly one user_typing whose isTyping tells start from stop, and no
\* event to A.
C5_TypingPair ==
  (HandledInRoom("typing_start") \/ HandledInRoom("typing_stop")) =>
    \A s \in Sessions :
      IF s \in Members(last.data.roomId) \ {last.sid}
      THEN /\ Len(Inbox(s)) = 1
           /\ Inbox(s)[1].name = "user_typing"
           /\ "isTyping" \in DOMAIN Inbox(s)[1].data
           /\ Inbox(s)[1].data.isTyping = (last.op = "typing_start")
           /\ Inbox(s)[1].data.userId = last.sid
      ELSE s = last.sid => Inbox(s) = <<>>

\* C6: a send_message without roomId or without content sends one error
\* event, "Room ID and content are required", to the sender, delivers
\* nothing else to anyone and leaves every room as it was.
C6_SendRejected ==
  [][(last'.op = "send_message"
      /\ (last'.data.roomId = NoId \/ last'.data.content = NoText))
     => /\ out' = <<Delivery(last'.sid, "error",
                             [message |-> "Room ID and content are required"])>>
        /\ rooms' = rooms]_vars

C6_Witness ==
  /\ Handled("send_message")
  /\ last.data.roomId = NoId
  /\ last.data.content # NoText
  /\ Len(out) = 1
  /\ \E r \in RoomIds : Members(r) \ {last.sid} # {}

\* The payload of the finished handler lacks a field the event requires.
RequiredFieldMissing ==
  \/ /\ last.op \in {"join_room", "leave_room", "typing_start", "typing_stop",
                     "update_room", "get_room_members", "get_room_info"}
     /\ last.data.roomId = NoId
  \/ /\ last.op = "send_message"
     /\ (last.data.roomId = NoId \/ last.data.content = NoText)
  \/ /\ last.op = "edit_message"
     /\ (last.data.messageId = NoText \/ last.data.content = NoText)
  \/ /\ last.op = "delete_message"
     /\ last.data.messageId = NoText
  \/ /\ last.op = "create_room"
     /\ last.data.name = NoText

\* C7: an event that lacks its required payload field sends an error event
\* to the socket it came from, delivers nothing else to anyone, and leaves
\* the connection open.
C7_MissingFieldIsError ==
  RequiredFieldMissing =>
    /\ Len(out) = 1
    /\ out[1].to = last.sid
    /\ out[1].name = "error"
    /\ status[last.sid] = "connected"

\* C8: the id create_room hands out differs from every id an earlier
\* create_room of the process handed out.
C8_RoomIdFresh == NewRoomId # NoId => NewRoomId \notin created

\* C9: when a socket A that created room r is the only member of r, as it
\* is right after its create_room, a get_room_members for r reports the
\* member set {A}.
C9_MembersReported ==
  (/\ HandledInRoom("get_room_members")
   /\ last.data.roomId \in created
   /\ Members(last.data.roomId) = {last.sid})
  => /\ Len(out) = 1
     /\ out[1].name = "room_members"
     /\ out[1].data.roomId = last.data.roomId
     /\ out[1].data.members = {last.sid}

\* C10: join_room(B, R) puts B into R, sends room_joined{roomId: R} to B
\* and nothing else to B, and sends user_joined naming B to every socket
\* that was in R already; sockets outside R get nothing.
C10_JoinNotifiesOthers ==
  HandledInRoom("join_room") =>
    /\ last.sid \in Members(last.data.roomId)
    /\ \A s \in Sessions :
         Inbox(s) =
           IF s = last.sid
           THEN <<Delivery(s, "room_joined", [roomId |-> last.data.roomId])>>
           ELSE IF s \in Members(last.data.roomId)
           THEN <<Delivery(s, "user_joined",
                           [userId |-> last.sid, user |-> User(last.sid)])>>
           ELSE <<>>

C10_Witness ==
  /\ HandledInRoom("join_room")
  /\ Members(last.data.roomId) \ {last.sid} # {}
  /\ \E c \in Connected : c \notin Members(last.data.roomId)

\* C11: a join_room naming a room id that no create_room has handed out
\* fails: the caller is sent one error event, the room-not-found error
\* (code ROOM_NOT_FOUND), nothing else is delivered, and the caller is in
\* no room under that id afterwards.
C11_UnknownRoomRejected ==
  (HandledInRoom("join_room") /\ last.data.roomId \notin created) =>
    /\ Len(out) = 1
    /\ out[1].to = last.sid
    /\ out[1].name = "error"
    /\ "code" \in DOMAIN out[1].data
    /\ out[1].data.code = "ROOM_NOT_FOUND"
    /\ last.sid \notin Members(last.data.roomId)

\* C12 (as the specification states it): a join_room by a socket that is
\* already in the room is a no-op: every room keeps its members and no
\* socket is delivered a user_joined for it.
C12_RejoinIsNoop ==
  [][(last'.op = "join_room" /\ InRoom(rooms, last'.sid, last'.data.roomId))
     => /\ rooms' = rooms
        /\ \A i \in DOMAIN out' : out'[i].name # "user_joined"]_vars

\* C12 (amended): a join_room by a socket that is already in the room leaves
\* every room's members as they were, but it is announced again: every other
\* member of the room is delivered one more user_joined naming the socket,
\* and the socket itself one more room_joined.
C12_RejoinKeepsMembers ==
  [][(last'.op = "join_room" /\ InRoom(rooms, last'.sid, last'.data.roomId))
     => /\ rooms' = rooms
        /\ out' = Deliveries(rooms[getRoomName(last'.data.roomId)] \ {last'.sid},
                             "user_joined",
                             [userId |-> last'.sid, user |-> User(last'.sid)])
                  \o <<Delivery(last'.sid, "room_joined",
                                [roomId |-> last'.data.roomId])>>]_vars

C12_Witness ==
  /\ HandledInRoom("join_room")
  /\ last.data.wasIn
  /\ Members(last.data.roomId) \ {last.sid} # {}
  /\ \E i \in DOMAIN out : out[i].name = "user_joined"

\* C13: leave_room(A, R) by a socket A that is in R takes A out of R, sends
\* room_left{roomId: R} to A and nothing else to A, sends user_left naming A
\* to every socket that remains in R, and nothing to any other socket.
C13_LeaveNotifiesRemaining ==
  (HandledInRoom("leave_room") /\ last.data.wasIn) =>
    /\ last.sid \notin Members(last.data.roomId)
    /\ \A s \in Sessions :
         Inbox(s) =
           IF s = last.sid
           THEN <<Delivery(s, "room_left", [roomId |-> last.data.roomId])>>
           ELSE IF s \in Members(last.data.roomId)
           THEN <<Delivery(s, "user_left",
                           [userId |-> last.sid, user |-> User(last.sid)])>>
           ELSE <<>>

C13_Witness ==
  /\ HandledInRoom("leave_room")
  /\ last.data.wasIn
  /\ Members(last.data.roomId) # {}
  /\ \E c \in Connected \ {last.sid} : c \notin Members(last.data.roomId)

\* C14: the cleanup of a disconnect takes effect once per connection.  Once
\* a socket is closed it stays closed, no user_offline naming it is ever
\* delivered again, and a further close signal for it delivers nothing and
\* changes neither the rooms nor any socket's status.
C14_DisconnectOnce ==
  [][\A s \in Sessions :
       status[s] = "closed" =>
         /\ status'[s] = "closed"
         /\ \A i \in DOMAIN out' :
              ~(out'[i].name = "user_offline" /\ out'[i].data.userId = s)
         /\ last'.sid = s =>
              (out' = <<>> /\ rooms' = rooms /\ status' = status)]_vars

C14_Witness ==
  /\ Handled("close")
  /\ status[last.sid] = "closed"
  /\ Connected # {}
  /\ out = <<>>

\* C15: if one connection emits two send_message events to the same room,
\* every socket that is delivered the message_sent of both is delivered the
\* first one's before the second one's, whatever the other connections emit,
\* join or leave in between.
C15_SendOrderKept ==
  \A x \in Sessions, a \in Sessions, r \in RoomIds :
    \A i \in DOMAIN log[x], j \in DOMAIN log[x] :
      (log[x][i] = <<a, r, MessageOf(1)>> /\ log[x][j] = <<a, r, MessageOf(2)>>)
        => i < j

C15_Witness ==
  \E x \in Sessions, a \in Sessions, r \in RoomIds :
    /\ x # a
    /\ sent[a] = 2
    /\ \E i \in DOMAIN log[x] : log[x][i] = <<a, r, MessageOf(1)>>
    /\ \E j \in DOMAIN log[x] : log[x][j] = <<a, r, MessageOf(2)>>

\* C16: every accepted send_message (roomId and content present) delivers
\* the message_sent of that message to the socket that sent it, whatever
\* rooms that socket is in.
C16_SenderEcho ==
  SendAccepted =>
    \E i \in DOMAIN out :
      /\ out[i].to = last.sid
      /\ out[i].name = "message_sent"
      /\ out[i].data.message = Message(last.sid, last.data.roomId, last.data.content)

\* The finished handler is an edit_message or delete_message that passed
\* its validation.
EditOrDeleteAccepted ==
  \/ /\ last.op = "edit_message"
     /\ last.data.messageId # NoText
     /\ last.data.content # NoText
  \/ /\ last.op = "delete_message"
     /\ last.data.messageId # NoText

\* C17: an accepted edit_message (delete_message) by socket A delivers
\* message_edited (message_deleted) for that message id to every socket that
\* is in some chat room A is in, and delivers nothing to a socket that is in
\* no chat room with A; a room A is no longer in is not addressed.
C17_EditReachesSharedRooms ==
  EditOrDeleteAccepted =>
    /\ \A i \in DOMAIN out :
         IF last.op = "edit_message"
         THEN /\ out[i].name = "message_edited"
              /\ out[i].data.id = last.data.messageId
              /\ out[i].data.content = last.data.content
         ELSE /\ out[i].name = "message_deleted"
              /\ out[i].data.messageId = last.data.messageId
              /\ out[i].data.deletedBy = last.sid
    /\ \A s \in Sessions :
         (Inbox(s) # <<>>) <=>
           \E r \in RoomIds : last.sid \in Members(r) /\ s \in Members(r)

C17_Witness ==
  /\ EditOrDeleteAccepted
  /\ \E r \in RoomIds : \E b \in Members(r) :
       b # last.sid /\ last.sid \in Members(r)
  /\ \E r \in RoomIds : \E c \in Members(r) :
       /\ last.sid \notin Members(r)
       /\ \A q \in RoomIds : ~(last.sid \in Members(q) /\ c \in Members(q))
       /\ Inbox(c) = <<>>

\* The names of the events the finished handler delivered to socket s.
InboxNames(s) == [i \in DOMAIN Inbox(s) |-> Inbox(s)[i].name]

\* C18: a create_room with a name delivers room_created to every connected
\* socket, the creator included, and room_created_success to the creator
\* and to nobody else; both carry the new room (its id and its name).
C18_CreateAnnounced ==
  (Handled("create_room") /\ last.data.name # NoText) =>
    /\ \A s \in Sessions :
         InboxNames(s) =
           IF s = last.sid THEN <<"room_created", "room_created_success">>
           ELSE IF s \in Connected THEN <<"room_created">>
           ELSE <<>>
    /\ \A i \in DOMAIN out :
         /\ out[i].data.room.id = NewRoomId
         /\ out[i].data.room.name = last.data.name
    /\ last.sid \in Members(NewRoomId)

C18_Witness ==
  /\ Handled("create_room")
  /\ last.data.name # NoText
  /\ Cardinality(Connected) >= 2
  /\ \E s \in Sessions : status[s] = "closed"

\* C19: an accepted connection brings a user_online naming the new socket
\* to every other connected socket and a user_rooms event to the new socket:
\* both have been delivered when the connection has been handled.
C19_ConnectionAnnounced ==
  Handled("connection") =>
    /\ \E i \in DOMAIN out :
         out[i].to = last.sid /\ out[i].name = "user_rooms"
    /\ \A s \in Connected \ {last.sid} :
         \E i \in DOMAIN out :
           /\ out[i].to = s
           /\ out[i].name = "user_online"
           /\ out[i].data.userId = last.sid

\* C20: when a socket disconnects, every socket that is still connected is
\* delivered one user_offline carrying the disconnected socket's id; and no
\* event of any handler is ever delivered to a socket that is closed, so the
\* disconnected socket receives nothing from its disconnect on.
C20_OfflineToConnectedOnly ==
  /\ Handled("disconnect") =>
       \A s \in Connected :
         Inbox(s) = <<Delivery(s, "user_offline", [userId |-> last.sid])>>
  /\ \A i \in DOMAIN out : status[out[i].to] = "connected"

C20_Witness ==
  /\ Handled("disconnect")
  /\ Connected # {}
  /\ out # <<>>
  /\ \E c \in Sessions : c # last.sid /\ status[c] = "closed"

C22_UpdateMergesFields ==
  (/\ HandledInRoom("update_room")
   /\ records[last.data.roomId] # NoRecord
   /\ last.data.name = NoText
   /\ last.data.maxMembers = 0
   /\ last.data.description # NoText)
  => \A m \in Members(last.data.roomId) :
       \E i \in DOMAIN out :
         /\ out[i].to = m
         /\ out[i].name = "room_updated"
         /\ out[i].data.room.name = records[last.data.roomId].name
         /\ out[i].data.room.maxMembers = records[last.data.roomId].maxMembers
         /\ out[i].data.room.description = last.data.description

\* C23: in every reachable state, each room that create_room has created
\* has at most as many members as the maxMembers it was created with.
C23_MembersWithinMax ==
  \A r \in RoomIds :
    records[r] # NoRecord => Cardinality(Members(r)) <= records[r].maxMembers

\* C24: every message_sent delivered for a send_message to room R names as
\* its sender a socket that is in R when the send_message is handled (the
\* handler leaves the rooms as they are, so that is R's membership in its
\* finished state too).
C24_SenderIsMember ==
  Handled("send_message") =>
    \A i \in DOMAIN out :
      out[i].name = "message_sent" =>
        out[i].data.message.senderId \in Members(out[i].data.message.roomId)

\* C25: get_online_users delivers one online_users event, to the requester
\* and to nobody else; its users list has exactly one entry per connected
\* socket (the requester included, no closed socket) and count is the
\* number of entries.
C25_OnlineUsersListed ==
  Handled("get_online_users") =>
    /\ Len(out) = 1
    /\ out[1].to = last.sid
    /\ out[1].name = "online_users"
    /\ {out[1].data.users[i].id : i \in DOMAIN out[1].data.users} = Connected
    /\ Len(out[1].data.users) = Cardinality(Connected)
    /\ out[1].data.count = Len(out[1].data.users)
    /\ last.sid \in Connected

C25_Witness ==
  /\ Handled("get_online_users")
  /\ Cardinality(Connected) >= 2
  /\ \E c \in Sessions : status[c] = "closed"

\* C26: an exception raised in a listener of a client event, as when
\* join_room, send_message or typing_start arrives with no payload object,
\* is caught and surfaced to that client as one error event, and it ends
\* neither the connection nor the process.
C26_ExceptionSurfaced ==
  /\ Handled("no_payload") =>
       /\ \E i \in DOMAIN out : out[i].to = last.sid /\ out[i].name = "error"
       /\ status[last.sid] = "connected"
  /\ ~Handled("exit")

\* The sockets the finished handler delivered event `name` to.
Recipients(name) == {out[i].to : i \in {j \in DOMAIN out : out[j].name = name}}

\* C27: a disconnecting socket leaves all its rooms in the one step of its
\* disconnect, so that no handler of another connection ever runs while it
\* is in some of its former rooms and not in others; and every broadcast to
\* a room reaches exactly the sockets that are in the room when it is
\* issued (less the sender, for the events sent with socket.to).
C27_RemovalAtomic ==
  /\ Handled("disconnect") => \A n \in last.data.rooms : last.sid \notin rooms[n]
  /\ \A s \in Sessions :
       status[s] # "connected" => \A n \in RoomNames : s \notin rooms[n]
  /\ SendAccepted =>
       /\ Recipients("message_sent") = Members(last.data.roomId)
       /\ Recipients("new_message") = Members(last.data.roomId)
  /\ HandledInRoom("update_room") =>
       Recipients("room_updated") = Members(last.data.roomId)
  /\ HandledInRoom("join_room") =>
       Recipients("user_joined") = Members(last.data.roomId) \ {last.sid}
  /\ HandledInRoom("leave_room") =>
       Recipients("user_left") = Members(last.data.roomId) \ {last.sid}
  /\ HandledInRoom("typing_start") =>
       Recipients("user_typing") = Members(last.data.roomId) \ {last.sid}

C27_Witness ==
  /\ Handled("disconnect")
  /\ Cardinality({n \in last.data.rooms : StartsWithRoom(n)}) >= 2
  /\ Connected # {}

\* The chat rooms sockets a and b are both in.
SharedRooms(a, b) == {r \in RoomIds : a \in Members(r) /\ b \in Members(r)}

\* C28: for one accepted edit_message by socket A, every socket S receives
\* exactly as many message_edited events as there are chat rooms with both A
\* and S in them, and nothing else: A one per room it is in, a socket sharing
\* two rooms with A the same edit twice, and when A is in no room nobody
\* receives anything, not even an error.
C28_EditOncePerSharedRoom ==
  (/\ Handled("edit_message")
   /\ last.data.messageId # NoText
   /\ last.data.content # NoText)
  => /\ \A s \in Sessions :
          Len(Inbox(s)) = Cardinality(SharedRooms(last.sid, s))
     /\ \A i \in DOMAIN out :
          out[i] = Delivery(out[i].to, "message_edited",
                            [id |-> last.data.messageId,
                             content |-> last.data.content,
                             isEdited |-> TRUE, sender |-> User(last.sid)])

C28_Witness ==
  /\ Handled("edit_message")
  /\ last.data.messageId # NoText
  /\ last.data.content # NoText
  /\ \E s \in Sessions : s # last.sid /\ Len(Inbox(s)) = 2
  /\ Len(Inbox(last.sid)) = 2

\* C29: for each accepted send_message to room R, every socket in R is
\* delivered exactly one message_sent and exactly one new_message for that
\* message and nothing else, the message_sent first.
C29_SentThenNew ==
  SendAccepted =>
    \A s \in Members(last.data.roomId) :
      Inbox(s) =
        <<Delivery(s, "message_sent",
                   [message |-> Message(last.sid, last.data.roomId,
                                        last.data.content)]),
          Delivery(s, "new_message",
                   Message(last.sid, last.data.roomId, last.data.content))>>

C29_Witness ==
  /\ SendAccepted
  /\ Cardinality(Members(last.data.roomId)) >= 2
  /\ Len(out) = 2 * Cardinality(Members(last.data.roomId))

\* C30: a leave_room(A, R) by a socket A that is not in R leaves every room
\* with the members it had, and still delivers user_left naming A to every
\* socket in R and room_left{roomId: R} to A.
C30_LeaveByNonMember ==
  [][(/\ last'.op = "leave_room"
      /\ last'.data.roomId # NoId
      /\ ~InRoom(rooms, last'.sid, last'.data.roomId))
     => /\ rooms' = rooms
        /\ out' = Deliveries(rooms[getRoomName(last'.data.roomId)], "user_left",
                             [userId |-> last'.sid, user |-> User(last'.sid)])
                  \o <<Delivery(last'.sid, "room_left",
                                [roomId |-> last'.data.roomId])>>]_vars

C30_Witness ==
  /\ HandledInRoom("leave_room")
  /\ ~last.data.wasIn
  /\ Members(last.data.roomId) # {}
  /\ Recipients("user_left") = Members(last.data.roomId)
====
